---- MODULE Spec2Model ----
(***************************************************************************)
(* A model of skew's ARN locator: construction of the six components from  *)
(* an input string (ARN._build_components_from_string), the splitting of   *)
(* the resource pattern (Resource._split_resource), the matcher            *)
(* (ARNComponent.match) and the depth-first enumeration carried by the     *)
(* chain of generators Scheme -> Provider -> Service -> Region -> Account  *)
(* and the eager Resource.enumerate.                                       *)
(*                                                                         *)
(* A Python string is a sequence of one-character strings, so that         *)
(* splitting and regular-expression search are computed, not assumed.      *)
(* Python's None is the one-element sequence <<"None">>, which is no       *)
(* string over the characters used here.  self._components = None is the   *)
(* empty sequence.                                                         *)
(***************************************************************************)
EXTENDS Naturals, Sequences, FiniteSets

\* ------------------------------------------------------------------ bounds
\* Longest input string of the construction and splitting specifications.
MaxLen == 6
\* Records a backend holds for one (region, account, resource type).
NumRecs == 2

\* ------------------------------------------------------- program constants
\* arn_string.split(':', 6)
ArnMaxSplit == 6
\* resource.split('/', 1) and resource.split(':', 1)
ResourceMaxSplit == 1

None == <<"None">>
STAR == <<"*">>

\* ----------------------------------------------------------------- strings
HasChar(s, c) == \E i \in 1..Len(s) : s[i] = c

\* s.find(c): the first position of c in s (0 when absent).
Find(s, c) ==
    IF HasChar(s, c) THEN CHOOSE i \in 1..Len(s) : s[i] = c /\ \A j \in 1..(i-1) : s[j] # c
    ELSE 0

RECURSIVE split(_, _, _)
\* str.split(sep, maxsplit): at most maxsplit splits, left to right, so at
\* most maxsplit + 1 pieces; the last piece keeps any further separators.
split(s, sep, maxsplit) ==
    IF maxsplit = 0 \/ ~HasChar(s, sep) THEN <<s>>
    ELSE LET i == Find(s, sep)
         IN <<SubSeq(s, 1, i - 1)>> \o split(SubSeq(s, i + 1, Len(s)), sep, maxsplit - 1)

\* str.split(sep) with no maxsplit: every separator splits.
splitAll(s, sep) == split(s, sep, Len(s))

\* needle in haystack, for plain strings.
IsSubstring(needle, hay) ==
    \E i \in 0..(Len(hay) - Len(needle)) : SubSeq(hay, i + 1, i + Len(needle)) = needle

\* --------------------------------------------------------------- resources
\* _split_resource with the two tests in the other order: ':' before '/'.
split_resource_colon_first(resource) ==
    IF HasChar(resource, ":")
    THEN LET p == split(resource, ":", ResourceMaxSplit) IN <<p[1], p[2]>>
    ELSE IF HasChar(resource, "/")
    THEN LET p == split(resource, "/", ResourceMaxSplit) IN <<p[1], p[2]>>
    ELSE <<resource, None>>

\* Resource._split_resource: (resource_type, resource_id).
_split_resource(resource) ==
    IF HasChar(resource, "/")
    THEN LET p == split(resource, "/", ResourceMaxSplit) IN <<p[1], p[2]>>
    ELSE IF HasChar(resource, ":")
    THEN LET p == split(resource, ":", ResourceMaxSplit) IN <<p[1], p[2]>>
    ELSE <<resource, None>>

\* ------------------------------------------------------------ construction
\* ARN.ComponentClasses; a class is a one-element sequence, like None, so that
\* it can stand in a pair where zip_longest may put the string '*'.
ComponentClasses ==
    << <<"Scheme">>, <<"Provider">>, <<"Service">>, <<"Region">>, <<"Account">>,
       <<"Resource">> >>

\* jmespath.compile(query): raises on an expression it cannot parse.  Over the
\* characters used here an expression parses when it is a non-empty identifier.
ValidQuery(q) == q # <<>> /\ \A i \in 1..Len(q) : q[i] \notin {":", "/", "|", "*"}

\* zip in place of zip_longest: pairs up to the shorter of the two, no padding.
zip_shortest(a, b, fillvalue) ==
    LET n == IF Len(a) <= Len(b) THEN Len(a) ELSE Len(b)
    IN [i \in 1..n |-> <<a[i], b[i]>>]

\* zip_longest(a, b, fillvalue): pairs up to the longer of the two, the shorter
\* padded with fillvalue.
zip_longest(a, b, fillvalue) ==
    LET n == IF Len(a) >= Len(b) THEN Len(a) ELSE Len(b)
    IN [i \in 1..n |-> << IF i <= Len(a) THEN a[i] ELSE fillvalue,
                          IF i <= Len(b) THEN b[i] ELSE fillvalue >>]

\* The positional tokens of the address part.
Tokens(arn_str) == split(arn_str, ":", ArnMaxSplit)

\* ARN._build_components_from_string: the outcome of construction, as
\* [error, components, query].  c(n, self) with c the fill value '*' is a
\* call of a str: TypeError, and self._components stays None.
_build_components_from_string(arn_str) ==
    LET hasq  == HasChar(arn_str, "|")
        parts == splitAll(arn_str, "|")
    IN  IF hasq /\ Len(parts) # 2
        THEN [error |-> "ValueError", components |-> <<>>, query |-> None]
        ELSE IF hasq /\ ~ValidQuery(parts[2])
        THEN [error |-> "ParseError", components |-> <<>>, query |-> None]
        ELSE LET addr  == IF hasq THEN parts[1] ELSE arn_str
                 q     == IF hasq THEN parts[2] ELSE None
                 pairs == zip_longest(ComponentClasses, Tokens(addr), STAR)
             IN  IF \E i \in 1..Len(pairs) : pairs[i][1] = STAR
                 THEN [error |-> "TypeError", components |-> <<>>, query |-> q]
                 ELSE [error |-> "none",
                       components |-> [i \in 1..Len(pairs) |-> pairs[i][2]],
                       query |-> q]

\* ----------------------------------------------------------- named strings
s_arn == <<"a", "r", "n">>
s_aws == <<"a", "w", "s">>
s_ec2 == <<"e", "c", "2">>
s_elb == <<"e", "l", "b">>
s_iam == <<"i", "a", "m">>
s_instance == <<"i", "n", "s", "t", "a", "n", "c", "e">>
s_volume == <<"v", "o", "l", "u", "m", "e">>
s_loadbalancer == <<"l", "o", "a", "d", "b", "a", "l", "a", "n", "c", "e", "r">>
s_user == <<"u", "s", "e", "r">>
us_east_1 == <<"u", "s", "-", "e", "a", "s", "t", "-", "1">>
us_west_1 == <<"u", "s", "-", "w", "e", "s", "t", "-", "1">>
us_west_2 == <<"u", "s", "-", "w", "e", "s", "t", "-", "2">>
eu_west_1 == <<"e", "u", "-", "w", "e", "s", "t", "-", "1">>
eu_central_1 == <<"e", "u", "-", "c", "e", "n", "t", "r", "a", "l", "-", "1">>
ap_southeast_1 == <<"a", "p", "-", "s", "o", "u", "t", "h", "e", "a", "s", "t", "-", "1">>
ap_southeast_2 == <<"a", "p", "-", "s", "o", "u", "t", "h", "e", "a", "s", "t", "-", "2">>
ap_northeast_1 == <<"a", "p", "-", "n", "o", "r", "t", "h", "e", "a", "s", "t", "-", "1">>
sa_east_1 == <<"s", "a", "-", "e", "a", "s", "t", "-", "1">>
acct_123 == <<"1", "2", "3">>
acct_456 == <<"4", "5", "6">>

\* ------------------------------------------------- registry and config store
\* skew.resources.ResourceTypes: the registered (provider, service, type)
\* paths, in the order the registry lists them.  aws.elb.loadbalancer is the
\* LoadBalancer class of resources/aws/elb.py.
ResourceTypes ==
    << <<s_aws, s_ec2, s_instance>>, <<s_aws, s_ec2, s_volume>>,
       <<s_aws, s_elb, s_loadbalancer>>, <<s_aws, s_iam, s_user>> >>

\* The distinct values of f over a sequence, in order of first occurrence.
Distinct(seq) ==
    LET keep == {i \in 1..Len(seq) : \A j \in 1..(i-1) : seq[j] # seq[i]}
        F[n \in 0..Len(seq)] ==
            IF n = 0 THEN <<>> ELSE IF n \in keep THEN Append(F[n-1], seq[n]) ELSE F[n-1]
    IN F[Len(seq)]

\* skew.resources.all_services(provider_name)
all_services(provider_name) ==
    LET hit == SelectSeq(ResourceTypes, LAMBDA t : t[1] = provider_name)
    IN Distinct([i \in 1..Len(hit) |-> hit[i][2]])

\* skew.resources.all_types(provider_name, service_name)
all_types(provider_name, service_name) ==
    LET hit == SelectSeq(ResourceTypes,
                         LAMBDA t : t[1] = provider_name /\ t[2] = service_name)
    IN [i \in 1..Len(hit) |-> hit[i][3]]

\* skew.resources.find_resource_class(resource_path) finds a class exactly for
\* the registered paths; for any other path the lookup raises.
IsRegistered(resource_path) ==
    \E i \in 1..Len(ResourceTypes) : ResourceTypes[i] = resource_path

\* get_config()['accounts'].keys(), read once in Account.__init__.
_accounts == <<acct_123, acct_456>>

\* The n-th identifier a backend holds: 'a', 'aa', ...
RecId(n) == [i \in 1..n |-> "a"]

\* resource_cls.enumerate(arn, region, account, resource_id, aws_creds): the
\* records the backend of one resource type returns, in its own order.  A
\* record is opaque to the core; here it carries where it came from.  An id
\* other than None or '*' filters the records.
BackendRecords(resource_path, region, account, resource_id) ==
    LET all == [n \in 1..NumRecs |->
                   [path |-> resource_path, region |-> region, account |-> account,
                    id |-> RecId(n), n |-> n]]
    IN IF resource_id = None \/ resource_id = STAR THEN all
       ELSE SelectSeq(all, LAMBDA r : r.id = resource_id)

\* ------------------------------------------------------------------ regions
_all_region_names ==
    <<us_east_1, us_west_1, us_west_2, eu_west_1, eu_central_1,
      ap_southeast_1, ap_southeast_2, ap_northeast_1, sa_east_1>>

_region_names_limited ==
    <<us_east_1, us_west_2, eu_west_1, ap_southeast_1, ap_southeast_2, ap_northeast_1>>

_no_region_required == << <<>> >>

\* Region._service_region_map as a sequence of (service, region list).
_service_region_map ==
    << << <<"r", "e", "d", "s", "h", "i", "f", "t">>, _region_names_limited >>,
       << <<"g", "l", "a", "c", "i", "e", "r">>, _region_names_limited >>,
       << <<"k", "i", "n", "e", "s", "i", "s">>, _region_names_limited >>,
       << s_iam, _no_region_required >>,
       << <<"r", "o", "u", "t", "e", "5", "3">>, _no_region_required >>,
       << <<"l", "a", "m", "b", "d", "a">>, <<us_east_1, us_west_2, eu_west_1, ap_northeast_1>> >> >>

\* A lookup that never finds its key.
region_map_miss(key, default) == default

\* dict.get(key, default) on _service_region_map.
region_map_get(key, default) ==
    IF \E i \in 1..Len(_service_region_map) : _service_region_map[i][1] = key
    THEN LET i == CHOOSE i \in 1..Len(_service_region_map) : _service_region_map[i][1] = key
         IN _service_region_map[i][2]
    ELSE default

\* ------------------------------------------------------------------- state
VARIABLES
    arn_string,    \* the argument of ARN(arn_string, aws_creds)
    aws_creds,     \* the credentials argument
    failing,       \* the (resource path, region, account) whose backend call raises
    lpc,           \* "new", "constructed" or "failed": where the constructor is
    ctor_error,    \* the exception ARN.__init__ raised, "none" otherwise
    components,    \* self._components: the patterns of the six components
    query,         \* self.query
    its,           \* the iterators made by ARN.__iter__, each a traversal record
    resource_arg,  \* the argument of a direct call of Resource._split_resource
    split_result,  \* what that call returned
    direct         \* the last direct call of a component's choices or match

vars == <<arn_string, aws_creds, failing, lpc, ctor_error, components, query, its,
          resource_arg, split_result, direct>>

\* ---------------------------------------------------------------- matcher
\* What the record of the last direct call holds before any direct call.
NoCall == [op |-> "none", k |-> 0, pattern |-> None, context |-> None, result |-> <<>>]

\* `if context:` is true of a non-empty list.
Truthy(context) == context # None /\ context # <<>>

\* self._arn.service, the component object itself: no string equals it.
ServiceObject == <<"Service object">>

\* <Component>.choices(context) of the k-th component class (1 = Scheme ..
\* 6 = Resource).  Python's context[i] is context[i + 1] here.
choices(k, context) ==
    CASE k = 1 -> <<s_arn>>
      [] k = 2 -> <<s_aws>>
      [] k = 3 -> all_services(IF Truthy(context) THEN context[2] ELSE components[2])
      [] k = 4 -> region_map_get(IF Truthy(context) THEN context[3] ELSE ServiceObject,
                                 _all_region_names)
      [] k = 5 -> _accounts
      [] k = 6 -> LET service == IF Truthy(context) THEN context[3] ELSE components[3]
                      all_resources == all_types(components[2], service)
                  IN IF all_resources = <<>> THEN <<STAR>> ELSE all_resources

\* regex.match(choice) anchored at both ends in place of regex.search(choice).
re_fullmatch(regex, choice) ==
    IF regex = <<".", "*">> THEN TRUE ELSE regex = choice

\* regex.search(choice) for the regular expressions used here: '.*' and
\* plain text without metacharacters, which matches where it occurs.
re_search(regex, choice) ==
    IF regex = <<".", "*">> THEN TRUE ELSE IsSubstring(regex, choice)

\* ARNComponent.match(pattern, context)
ARNComponent_match(k, pattern, context) ==
    LET regex == IF pattern = STAR THEN <<".", "*">> ELSE pattern
    IN SelectSeq(choices(k, context), LAMBDA choice : re_search(regex, choice))

\* <Component>.match: Resource overrides it to match the resource type only.
match(k, pattern, context) ==
    IF k = 6 THEN ARNComponent_match(k, _split_resource(pattern)[1], context)
    ELSE ARNComponent_match(k, pattern, context)

\* ARNComponent.matches(context)
matches(k, context) == match(k, components[k], context)

\* -------------------------------------------------------------- traversal
\* A level that recurses without pushing its match.
append_dropped(context, m) == context

\* context.append(match)
append(context, m) == Append(context, m)

\* A level that returns without popping its match.
pop_forgotten(context) == context

\* context.pop()
pop(context) == SubSeq(context, 1, Len(context) - 1)

\* The records of a resource type put before those of the earlier types.
extend_front(resources, records) == records \o resources

\* resources.extend(records)
extend(resources, records) == resources \o records

\* The iterator ARN.__iter__ returns, before its first next().  pc is the
\* generator chain's state, pos the place of the running code, frames the
\* started generators Scheme.enumerate .. Account.enumerate (outermost first),
\* each with its match list, the number of matches taken and the context it was
\* called with; ret is the context at the call of the enumerate that last
\* returned.
NewTraversal ==
    [pc |-> "created", pos |-> "none", context |-> <<>>, frames |-> <<>>, ret |-> <<>>,
     resource_id |-> None, rmatches |-> <<>>, ri |-> 0, resources |-> <<>>, yi |-> 0,
     out |-> <<>>, calls |-> <<>>, error |-> "none"]

Top(tr) == tr.frames[Len(tr.frames)]

\* An exception leaves every generator of the chain: none of them has a
\* try/finally, so no context.pop() runs and the context stays as it is.
Raised(tr, exc) == [tr EXCEPT !.pc = "raised", !.pos = "none", !.frames = <<>>, !.error = exc]

\* The inputs of the traversal specification.
ArnStrings ==
    { <<"a", "r", "n", ":", "a", "w", "s", ":", "*", ":", "*", ":", "*", ":", "*">>,
      <<"a", "r", "n", ":", "a", "w", "s", ":", "e", "c", "2", ":", "u", "s", "-", "e", "a", "s", "t", "-", "1", ":", "1", "2", "3", ":", "*">>,
      <<"a", "r", "n", ":", "a", "w", "s", ":", "e", ":", "e", "a", "s", "t", ":", "*", ":", "i", "n", "s", "t", "a", "n", "c", "e", "/", "a">>,
      <<"a", "r", "n">>,
      <<"a", "r", "n", ":", "a", "w", "s", ":", "i", "a", "m">>,
      <<"a", "r", "n", ":", "a", "w", "s", ":", "e", "l", "b", ":", "u", "s", ":", "4", ":", "l", "o", "a", "d", "b", "a", "l", "a", "n", "c", "e", "r", "|", "a">>,
      <<"a", "r", "n", ":", "a", "w", "s", ":", "e", "c", "2", ":", "u", "s", "-", "w", "e", "s", "t", "-", "2", ":", "1", "2", "3", ":", "v", "o", "l", "u", "m", "e", ":", "a", "a">>,
      <<"a", "r", "n", ":", "a", "w", "s", ":", "s", "q", "s">>,
      <<"a", "r", "n", ":", "a", "w", "s", ":", "*", ":", "u", "s", "-", "e", "a", "s", "t", "-", "1", ":", "*", ":", "*">>,
      <<"a", "r", "n", ":", "a", "w", "s", ":", "*", ":", "*", ":", "*", ":", "u", "s", "e", "r">>,
      <<"*", ":", "*", ":", "*", ":", "*", ":", "*", ":", "*">> }

FailChoices ==
    { {},
      { <<<<s_aws, s_ec2, s_volume>>, us_east_1, acct_123>> },
      { <<<<s_aws, s_elb, s_loadbalancer>>, us_west_1, acct_456>> },
      { <<<<s_aws, s_iam, s_user>>, <<>>, acct_123>> } }

Init ==
    /\ arn_string \in ArnStrings
    /\ aws_creds \in {None, <<"k">>}
    /\ failing \in FailChoices
    /\ lpc = "new"
    /\ ctor_error = "none"
    /\ components = <<>>
    /\ query = None
    /\ its = <<>>
    /\ resource_arg = <<>>
    /\ split_result = None
    /\ direct = NoCall

\* ARN.__init__
Construct ==
    /\ lpc = "new"
    /\ LET b == _build_components_from_string(arn_string)
       IN /\ lpc' = IF b.error = "none" THEN "constructed" ELSE "failed"
          /\ ctor_error' = b.error
          /\ components' = b.components
          /\ query' = b.query
    /\ UNCHANGED <<arn_string, aws_creds, failing, its, resource_arg, split_result, direct>>

Locator == <<arn_string, aws_creds, failing, lpc, ctor_error, components, query,
             resource_arg, split_result, direct>>

\* iter(arn): ARN.__iter__ makes a generator; its body has not started.
Iter ==
    /\ lpc = "constructed"
    /\ its = <<>>
    /\ its' = <<NewTraversal>>
    /\ UNCHANGED Locator

\* A first next() that takes up the list another iterator of the locator is
\* using in place of a new one.
Pull_shared(t) ==
    /\ its[t].pc \in {"created", "suspended"}
    /\ its' = [its EXCEPT ![t] =
                 IF its[t].pc = "created"
                 THEN [@ EXCEPT !.pc = "running", !.pos = "enter",
                                !.context = IF Len(its) = 2 THEN its[3 - t].context
                                            ELSE <<>>]
                 ELSE [@ EXCEPT !.pc = "running", !.pos = "yield"]]
    /\ UNCHANGED Locator

\* next(iterator): the first one runs `context = []` and calls
\* self.scheme.enumerate; a later one resumes Account.enumerate's loop over the
\* list Resource.enumerate returned.
Pull(t) ==
    /\ its[t].pc \in {"created", "suspended"}
    /\ its' = [its EXCEPT ![t] =
                 IF its[t].pc = "created"
                 THEN [@ EXCEPT !.pc = "running", !.pos = "enter", !.context = <<>>]
                 ELSE [@ EXCEPT !.pc = "running", !.pos = "yield"]]
    /\ UNCHANGED Locator

\* <Level>.enumerate starts: `for match in self.matches(context)` evaluates the
\* match list once.
Enter(t) ==
    /\ its[t].pc = "running" /\ its[t].pos = "enter"
    /\ LET tr == its[t]
           k  == Len(tr.frames) + 1
       IN its' = [its EXCEPT ![t] =
                    [tr EXCEPT !.frames = Append(tr.frames,
                                     [matches |-> matches(k, tr.context), i |-> 0,
                                      entry |-> tr.context]),
                               !.pos = "loop"]]
    /\ UNCHANGED Locator

\* The loop takes its next match: context.append(match), then the call of the
\* next level's enumerate (Resource.enumerate below Account).
Push(t) ==
    /\ its[t].pc = "running" /\ its[t].pos = "loop"
    /\ Top(its[t]).i < Len(Top(its[t]).matches)
    /\ LET tr == its[t]
           d  == Len(tr.frames)
           f  == Top(tr)
       IN its' = [its EXCEPT ![t] =
                    [tr EXCEPT !.context = append(tr.context, f.matches[f.i + 1]),
                               !.frames[d].i = f.i + 1,
                               !.pos = IF d < 5 THEN "enter" ELSE "resource"]]
    /\ UNCHANGED Locator

\* A level that treats an empty match list as an error.
Return_raising(t) ==
    /\ its[t].pc = "running" /\ its[t].pos = "loop"
    /\ Top(its[t]).i = Len(Top(its[t]).matches)
    /\ LET tr == its[t]
           d  == Len(tr.frames)
       IN its' = [its EXCEPT ![t] =
                    IF Top(tr).matches = <<>> THEN Raised(tr, "NoMatch")
                    ELSE [tr EXCEPT !.frames = SubSeq(tr.frames, 1, d - 1),
                                    !.ret = Top(tr).entry,
                                    !.pc = IF d = 1 THEN "exhausted" ELSE "running",
                                    !.pos = IF d = 1 THEN "none" ELSE "pop"]]
    /\ UNCHANGED Locator

\* The loop is out of matches: the generator returns.  Below ARN.__iter__ that
\* ends the iteration; elsewhere the caller goes on to its context.pop().
Return(t) ==
    /\ its[t].pc = "running" /\ its[t].pos = "loop"
    /\ Top(its[t]).i = Len(Top(its[t]).matches)
    /\ LET tr == its[t]
           d  == Len(tr.frames)
       IN its' = [its EXCEPT ![t] =
                    [tr EXCEPT !.frames = SubSeq(tr.frames, 1, d - 1),
                               !.ret = Top(tr).entry,
                               !.pc = IF d = 1 THEN "exhausted" ELSE "running",
                               !.pos = IF d = 1 THEN "none" ELSE "pop"]]
    /\ UNCHANGED Locator

\* context.pop() after the inner loop, then back to the loop head.
Pop(t) ==
    /\ its[t].pc = "running" /\ its[t].pos = "pop"
    /\ its' = [its EXCEPT ![t] = [@ EXCEPT !.context = pop(its[t].context), !.pos = "loop"]]
    /\ UNCHANGED Locator

\* A Resource.enumerate that stores the resource type it split off back into
\* its pattern.
ResourceEnter_rewrites(t) ==
    /\ its[t].pc = "running" /\ its[t].pos = "resource"
    /\ LET tr == its[t]
       IN its' = [its EXCEPT ![t] =
                    IF Len(tr.context) # 5 THEN Raised(tr, "ValueError")
                    ELSE [tr EXCEPT !.resource_id = _split_resource(components[6])[2],
                                    !.resources = <<>>,
                                    !.rmatches = matches(6, tr.context),
                                    !.ri = 0,
                                    !.pos = "resloop"]]
    /\ components' = [components EXCEPT ![6] = _split_resource(components[6])[1]]
    /\ UNCHANGED <<arn_string, aws_creds, failing, lpc, ctor_error, query, resource_arg,
                   split_result, direct>>

\* Resource.enumerate up to its loop: the context unpacks into exactly five
\* values (ValueError otherwise), the pattern is split, the match list is
\* evaluated once.
ResourceEnter(t) ==
    /\ its[t].pc = "running" /\ its[t].pos = "resource"
    /\ LET tr == its[t]
       IN its' = [its EXCEPT ![t] =
                    IF Len(tr.context) # 5 THEN Raised(tr, "ValueError")
                    ELSE [tr EXCEPT !.resource_id = _split_resource(components[6])[2],
                                    !.resources = <<>>,
                                    !.rmatches = matches(6, tr.context),
                                    !.ri = 0,
                                    !.pos = "resloop"]]
    /\ UNCHANGED Locator

\* '.'.join([provider, service_name, resource_type]), kept as the three parts.
resource_path(context, resource_type) == <<context[2], context[3], resource_type>>

\* The call with the account in the place of the region and the region in the
\* place of the account.
BackendCall_swapped(tr, resource_type) ==
    [path |-> resource_path(tr.context, resource_type), region |-> tr.context[5],
     account |-> tr.context[4], resource_id |-> tr.resource_id, aws_creds |-> aws_creds]

\* The arguments of resource_cls.enumerate(self._arn, region, account,
\* resource_id, aws_creds=aws_creds).
BackendCall(tr, resource_type) ==
    [path |-> resource_path(tr.context, resource_type), region |-> tr.context[4],
     account |-> tr.context[5], resource_id |-> tr.resource_id, aws_creds |-> aws_creds]

BackendFails(call) == <<call.path, call.region, call.account>> \in failing

\* A loop over the resource types that never moves on to the next type.
ResourceCall_again(t) ==
    /\ its[t].pc = "running" /\ its[t].pos = "resloop"
    /\ its[t].ri < Len(its[t].rmatches)
    /\ LET tr   == its[t]
           call == BackendCall(tr, tr.rmatches[tr.ri + 1])
       IN /\ IsRegistered(call.path)
          /\ ~BackendFails(call)
          /\ its' = [its EXCEPT ![t] =
                       [tr EXCEPT !.calls = Append(tr.calls, call),
                                  !.resources = extend(tr.resources,
                                      BackendRecords(call.path, call.region, call.account,
                                                     call.resource_id))]]
    /\ UNCHANGED Locator

\* One turn of Resource.enumerate's loop: the class is found, its enumerate
\* returns, the records extend the list.
ResourceCall(t) ==
    /\ its[t].pc = "running" /\ its[t].pos = "resloop"
    /\ its[t].ri < Len(its[t].rmatches)
    /\ LET tr   == its[t]
           call == BackendCall(tr, tr.rmatches[tr.ri + 1])
       IN /\ IsRegistered(call.path)
          /\ ~BackendFails(call)
          /\ its' = [its EXCEPT ![t] =
                       [tr EXCEPT !.calls = Append(tr.calls, call),
                                  !.resources = extend(tr.resources,
                                      BackendRecords(call.path, call.region, call.account,
                                                     call.resource_id)),
                                  !.ri = tr.ri + 1]]
    /\ UNCHANGED Locator

\* find_resource_class raises for a path that is not registered: nothing in
\* Resource.enumerate or above it catches, the list built so far is dropped.
ResourceLookupError(t) ==
    /\ its[t].pc = "running" /\ its[t].pos = "resloop"
    /\ its[t].ri < Len(its[t].rmatches)
    /\ LET tr   == its[t]
           call == BackendCall(tr, tr.rmatches[tr.ri + 1])
       IN /\ ~IsRegistered(call.path)
          /\ its' = [its EXCEPT ![t] = Raised(tr, "LookupError")]
    /\ UNCHANGED Locator

\* The backend's enumerate raises: the same way out.
ResourceBackendError(t) ==
    /\ its[t].pc = "running" /\ its[t].pos = "resloop"
    /\ its[t].ri < Len(its[t].rmatches)
    /\ LET tr   == its[t]
           call == BackendCall(tr, tr.rmatches[tr.ri + 1])
       IN /\ IsRegistered(call.path)
          /\ BackendFails(call)
          /\ its' = [its EXCEPT ![t] =
                       Raised([tr EXCEPT !.calls = Append(tr.calls, call)], "BackendError")]
    /\ UNCHANGED Locator

\* An Account.enumerate that goes on to the next account without yielding the
\* records of this one.
ResourceReturn_deferred(t) ==
    /\ its[t].pc = "running" /\ its[t].pos = "resloop"
    /\ its[t].ri = Len(its[t].rmatches)
    /\ its' = [its EXCEPT ![t] =
                 [@ EXCEPT !.ret = its[t].context, !.yi = 0, !.pos = "pop"]]
    /\ UNCHANGED Locator

\* `return resources`: Account.enumerate starts its loop over the list.
ResourceReturn(t) ==
    /\ its[t].pc = "running" /\ its[t].pos = "resloop"
    /\ its[t].ri = Len(its[t].rmatches)
    /\ its' = [its EXCEPT ![t] =
                 [@ EXCEPT !.ret = its[t].context, !.yi = 0, !.pos = "yield"]]
    /\ UNCHANGED Locator

\* `yield resource`: every generator above passes the record on, unchanged,
\* and the consumer's next() returns it.  out keeps, with each record, the
\* context it was yielded under.
Yield(t) ==
    /\ its[t].pc = "running" /\ its[t].pos = "yield"
    /\ its[t].yi < Len(its[t].resources)
    /\ its' = [its EXCEPT ![t] =
                 [@ EXCEPT !.out = Append(its[t].out,
                                         [ctx |-> its[t].context,
                                          rec |-> its[t].resources[its[t].yi + 1]]),
                           !.yi = its[t].yi + 1,
                           !.pc = "suspended"]]
    /\ UNCHANGED Locator

\* The list is used up: Account.enumerate goes on to its context.pop().
YieldEnd(t) ==
    /\ its[t].pc = "running" /\ its[t].pos = "yield"
    /\ its[t].yi = Len(its[t].resources)
    /\ its' = [its EXCEPT ![t] = [@ EXCEPT !.pos = "pop"]]
    /\ UNCHANGED Locator

\* The consumer abandons the iterator: close() (or the collector) raises
\* GeneratorExit at each generator's yield, and no code after a yield runs.
Close(t) ==
    /\ its[t].pc \in {"created", "suspended"}
    /\ its' = [its EXCEPT ![t] = [@ EXCEPT !.pc = "closed", !.pos = "none", !.frames = <<>>]]
    /\ UNCHANGED Locator

Next ==
    \/ Construct
    \/ Iter
    \/ \E t \in DOMAIN its : Pull(t)
    \/ \E t \in DOMAIN its : Enter(t)
    \/ \E t \in DOMAIN its : Push(t)
    \/ \E t \in DOMAIN its : Return(t)
    \/ \E t \in DOMAIN its : Pop(t)
    \/ \E t \in DOMAIN its : ResourceEnter(t)
    \/ \E t \in DOMAIN its : ResourceCall(t)
    \/ \E t \in DOMAIN its : ResourceLookupError(t)
    \/ \E t \in DOMAIN its : ResourceBackendError(t)
    \/ \E t \in DOMAIN its : ResourceReturn(t)
    \/ \E t \in DOMAIN its : Yield(t)
    \/ \E t \in DOMAIN its : YieldEnd(t)
    \/ \E t \in DOMAIN its : Close(t)

Spec == Init /\ [][Next]_vars

\* The same program with a consumer and an interpreter that, once the locator
\* is constructed, do not stop for ever while a step is possible: the locator
\* is iterated, the consumer of an iterator goes on to its next() or closes it,
\* and a running generator takes its next step.
SpecLive == Init /\ [][Next]_vars /\ WF_vars(lpc = "constructed" /\ Next)

\* ------------------------------------------ two iterators of one locator
\* The locators iterated twice: two branches of one resource type, a provider
\* pattern that finds no registered type, two regions of one account.
TwoArnStrings ==
    { <<"a", "r", "n", ":", "a", "w", "s", ":", "i", "a", "m">>,
      <<"a", "r", "n", ":", "a", ":", "i", "a", "m">>,
      <<"a", "r", "n", ":", "a", "w", "s", ":", "e", "l", "b", ":", "u", "s", "-", "w", "e", "s", "t", ":", "4", ":", "*">> }

InitTwo ==
    /\ arn_string \in TwoArnStrings
    /\ aws_creds = None
    /\ failing \in { {}, { <<<<s_aws, s_iam, s_user>>, <<>>, acct_456>> } }
    /\ lpc = "new"
    /\ ctor_error = "none"
    /\ components = <<>>
    /\ query = None
    /\ its = <<>>
    /\ resource_arg = <<>>
    /\ split_result = None
    /\ direct = NoCall

\* iter(arn) once more, while the first iterator is anywhere in its life.
IterAgain ==
    /\ lpc = "constructed"
    /\ Len(its) = 1
    /\ its' = Append(its, NewTraversal)
    /\ UNCHANGED Locator

NextTwo ==
    \/ Next
    \/ IterAgain

SpecTwo == InitTwo /\ [][NextTwo]_vars

\* ------------------------------------------- construction, every short input
Alphabet == {"a", ":", "/", "|"}

Strings == UNION {[1..n -> Alphabet] : n \in 0..MaxLen}

InitBuild ==
    /\ arn_string \in Strings
    /\ aws_creds = None
    /\ failing = {}
    /\ lpc = "new"
    /\ ctor_error = "none"
    /\ components = <<>>
    /\ query = None
    /\ its = <<>>
    /\ resource_arg = <<>>
    /\ split_result = None
    /\ direct = NoCall

SpecBuild == InitBuild /\ [][Construct]_vars

\* --------------------------------- Resource._split_resource, called directly
InitSplit ==
    /\ resource_arg \in Strings
    /\ arn_string = <<>>
    /\ aws_creds = None
    /\ failing = {}
    /\ lpc = "new"
    /\ ctor_error = "none"
    /\ components = <<>>
    /\ query = None
    /\ its = <<>>
    /\ split_result = None
    /\ direct = NoCall

\* resource._split_resource(resource_arg)
SplitResource ==
    /\ split_result = None
    /\ split_result' = _split_resource(resource_arg)
    /\ UNCHANGED <<arn_string, aws_creds, failing, lpc, ctor_error, components, query, its,
                   resource_arg, direct>>

SpecSplit == InitSplit /\ [][SplitResource]_vars

\* ----------------------------------- choices and match, called directly
\* The locators the direct calls are made on: provider patterns 'aws', 'a' and
\* '*', service patterns in and out of Region._service_region_map.
DirectArnStrings ==
    { <<"a", "r", "n", ":", "a", "w", "s", ":", "i", "a", "m">>,
      <<"a", "r", "n", ":", "a", ":", "e", "c", "2">>,
      <<"a", "r", "n">>,
      <<"a", "r", "n", ":", "a", "w", "s", ":", "l", "a", "m", "b", "d", "a">>,
      <<"a", "r", "n", ":", "a", "w", "s", ":", "*", ":", "e", "a", "s", "t">> }

\* The context arguments: None, the empty list, and lists of the values of the
\* earlier levels, with every key of _service_region_map as the service.
Contexts ==
    {None, <<>>, <<s_arn>>, <<s_arn, s_aws>>, <<s_arn, <<"g", "c", "p">>>>,
     <<s_arn, s_aws, s_ec2>>, <<s_arn, s_aws, s_elb>>, <<s_arn, s_aws, <<"s", "q", "s">>>>,
     <<s_arn, s_aws, s_ec2, us_east_1, acct_123>>}
    \cup {<<s_arn, s_aws, _service_region_map[i][1]>> : i \in 1..Len(_service_region_map)}

\* The highest place of the context a level's choices reads: context[1] at the
\* Service level, context[2] at the Region and Resource levels.  A non-empty
\* context that is shorter raises IndexError there and is no argument here.
ContextUsed(k) == CASE k = 3 -> 2 [] k \in {4, 6} -> 3 [] OTHER -> 0

DirectContexts(k) == {c \in Contexts : Truthy(c) => Len(c) >= ContextUsed(k)}

\* The pattern arguments of match: the wildcard, the empty string and plain
\* text, with and without an id part.
DirectPatterns ==
    { STAR, <<>>, <<"e">>, <<"e", "a", "s", "t">>, us_east_1, s_instance,
      <<"i", "n", "s", "t", "a", "n", "c", "e", "/", "a">>, <<"b", "a", "l", "a", "n", "c", "e", "r", ":", "a">> }

InitDirect ==
    /\ arn_string \in DirectArnStrings
    /\ aws_creds = None
    /\ failing = {}
    /\ lpc = "new"
    /\ ctor_error = "none"
    /\ components = <<>>
    /\ query = None
    /\ its = <<>>
    /\ resource_arg = <<>>
    /\ split_result = None
    /\ direct = NoCall

\* component.choices(context) of the k-th component of the locator.
CallChoices ==
    /\ lpc = "constructed"
    /\ \E k \in 1..6 : \E context \in DirectContexts(k) :
          direct' = [op |-> "choices", k |-> k, pattern |-> None, context |-> context,
                     result |-> choices(k, context)]
    /\ UNCHANGED <<arn_string, aws_creds, failing, lpc, ctor_error, components, query, its,
                   resource_arg, split_result>>

\* component.match(pattern, context) of the k-th component of the locator.
CallMatch ==
    /\ lpc = "constructed"
    /\ \E k \in 1..6 : \E pattern \in DirectPatterns : \E context \in DirectContexts(k) :
          direct' = [op |-> "match", k |-> k, pattern |-> pattern, context |-> context,
                     result |-> match(k, pattern, context)]
    /\ UNCHANGED <<arn_string, aws_creds, failing, lpc, ctor_error, components, query, its,
                   resource_arg, split_result>>

NextDirect ==
    \/ Construct
    \/ CallChoices
    \/ CallMatch

SpecDirect == InitDirect /\ [][NextDirect]_vars

\* -------------------------------------------------------------- properties
Range(seq) == {seq[i] : i \in 1..Len(seq)}

\* C1: when the consumer abandons an iterator (the generator chain is
\* closed), the context of that traversal is unwound to empty.
C1_AbandonUnwindsContext ==
    \A t \in DOMAIN its : its[t].pc = "closed" => its[t].context = <<>>

\* C2: when the enumerate of a level Scheme .. Account has run to exhaustion
\* (zero matches included), the context is what it was when that enumerate was
\* called; after the whole iteration is exhausted the context is empty.
C2_NormalCompletionRestoresContext ==
    \A t \in DOMAIN its :
        /\ (its[t].pc = "running" /\ its[t].pos = "pop" /\ Len(its[t].frames) < 5)
              => its[t].context = its[t].ret
        /\ its[t].pc = "exhausted" => (its[t].context = its[t].ret /\ its[t].context = <<>>)

\* A level returned with no match at all (the Region level, two services in),
\* after records of an earlier branch were delivered.
C2_Witness ==
    \E t \in DOMAIN its :
        /\ its[t].pc = "running" /\ its[t].pos = "pop" /\ Len(its[t].frames) = 3
        /\ Len(its[t].ret) = 3
        /\ its[t].out # <<>>
        /\ matches(4, its[t].ret) = <<>>

\* C3: level k (0 = Scheme .. 5 = Resource) computes its matches with exactly k
\* values in the context, the context is as long as the index of the level being
\* resolved, and Resource.enumerate runs with exactly the five values scheme,
\* provider, service, region, account, in that order.
C3_ContextLengthIsLevel ==
    \A t \in DOMAIN its :
        its[t].pc \in {"running", "suspended"} =>
            /\ \A d \in 1..Len(its[t].frames) : Len(its[t].frames[d].entry) = d - 1
            /\ its[t].pos = "enter" => Len(its[t].context) = Len(its[t].frames)
            /\ its[t].pos = "loop" => Len(its[t].context) = Len(its[t].frames) - 1
            /\ its[t].pos = "pop" => Len(its[t].context) = Len(its[t].frames)
            /\ its[t].pos \in {"resource", "resloop", "yield"} =>
                  /\ Len(its[t].frames) = 5
                  /\ Len(its[t].context) = 5
                  /\ \A k \in 1..5 :
                        its[t].context[k] \in
                            Range(choices(k, SubSeq(its[t].context, 1, k - 1)))

\* Resource.enumerate is running its loop over two matching resource types.
C3_Witness ==
    \E t \in DOMAIN its :
        /\ its[t].pc = "running" /\ its[t].pos = "resloop"
        /\ Len(its[t].rmatches) = 2 /\ its[t].ri = 1
        /\ its[t].context = <<s_arn, s_aws, s_ec2, us_west_2, acct_456>>

\* The place of value v in a list that holds it.
Pos(seq, v) == CHOOSE i \in 1..Len(seq) : seq[i] = v /\ \A j \in 1..(i-1) : seq[j] # v

\* The six-level path of a delivered record: its context and its resource type.
PathOf(e) == Append(e.ctx, e.rec.path[3])

\* The match list the level-k value of path p was taken from.
MatchListAt(p, k) == matches(k, SubSeq(p, 1, IF k = 6 THEN 5 ELSE k - 1))

\* Path p comes before path q: where they first differ, p's value is earlier in
\* that level's match list.
PathBefore(p, q) ==
    \E k \in 1..6 :
        /\ \A j \in 1..(k-1) : p[j] = q[j]
        /\ p[k] # q[k]
        /\ Pos(MatchListAt(p, k), p[k]) < Pos(MatchListAt(p, k), q[k])

\* C4: records are delivered depth-first, left to right: of two records whose
\* paths first differ at level k, the one whose level-k value is earlier in that
\* level's match list is delivered first.  out grows one record at a time, so
\* every pair of delivered records is, in some reachable state, the last record
\* and an earlier one: the last record must come before none of the earlier.
C4_DepthFirstOrder ==
    \A t \in DOMAIN its :
        \A i \in 1..Len(its[t].out) :
            i < Len(its[t].out) =>
                ~PathBefore(PathOf(its[t].out[Len(its[t].out)]), PathOf(its[t].out[i]))

\* Records of two services, each under the one matching region, the second
\* service's after the first's.
C4_Witness ==
    \E t \in DOMAIN its :
        /\ components[4] = us_east_1
        /\ \E i, j \in 1..Len(its[t].out) :
              /\ its[t].out[i].ctx[3] = s_ec2
              /\ its[t].out[j].ctx[3] = s_elb
              /\ i < j

\* C5: when a backend call or a registry lookup raises, the values the
\* enclosing levels pushed are popped as the error propagates: the context is
\* empty once the error reaches the consumer.
C5_ErrorUnwindsContext ==
    \A t \in DOMAIN its : its[t].pc = "raised" => its[t].context = <<>>

\* C6: a matched resource type with no registered backend does not make
\* Resource.enumerate raise, and does not end the traversal.
C6_UnregisteredTypeDoesNotRaise ==
    \A t \in DOMAIN its : ~(its[t].pc = "raised" /\ its[t].error = "LookupError")

\* The records of every branch the locator matches whose backend call succeeds.
Deliverable ==
    UNION { UNION { UNION { UNION {
        LET ctx  == <<s_arn, s_aws, sv, rg, ac>>
            path == <<s_aws, sv, ty>>
            rid  == _split_resource(components[6])[2]
        IN IF IsRegistered(path) /\ <<path, rg, ac>> \notin failing
           THEN Range(BackendRecords(path, rg, ac, rid))
           ELSE {}
        : ty \in Range(matches(6, <<s_arn, s_aws, sv, rg, ac>>)) }
        : ac \in Range(matches(5, <<s_arn, s_aws, sv, rg>>)) }
        : rg \in Range(matches(4, <<s_arn, s_aws, sv>>)) }
        : sv \in Range(matches(3, <<s_arn, s_aws>>)) }

\* C7: when the backend fails in one branch, the consumer still gets the
\* records of the other branches, before and after the failing one.
C7_PartialResultsDelivered ==
    \A t \in DOMAIN its :
        (its[t].pc = "raised" /\ its[t].error = "BackendError") =>
            Deliverable \subseteq {its[t].out[i].rec : i \in 1..Len(its[t].out)}

\* The part of the input before the filter separator.
Address(s) == IF HasChar(s, "|") THEN SubSeq(s, 1, Find(s, "|") - 1) ELSE s

ColonPositions(s) == {p \in 1..Len(s) : s[p] = ":"}

\* The place of the n-th colon of s.
NthColon(s, n) ==
    CHOOSE p \in ColonPositions(s) : Cardinality({q \in ColonPositions(s) : q < p}) = n - 1

\* The number of colon-separated pieces of s.
NumPieces(s) == Cardinality(ColonPositions(s)) + 1

\* The text between the (i-1)-th colon of s and its j-th colon (its start and
\* its end when there is no such colon).
Between(s, i, j) ==
    SubSeq(s, IF i = 1 THEN 1 ELSE NthColon(s, i - 1) + 1,
              IF j > Cardinality(ColonPositions(s)) THEN Len(s) ELSE NthColon(s, j) - 1)

FilterRejected == ctor_error \in {"ValueError", "ParseError"}

\* C8: whatever the number of colon-separated pieces of the input, construction
\* yields a Locator of exactly six components; with a sixth colon (the type:id
\* form) the resource component's pattern is everything after the fifth colon.
C8_AlwaysSixComponents ==
    (lpc # "new" /\ ~FilterRejected) =>
        /\ lpc = "constructed"
        /\ Len(components) = 6
        /\ NumPieces(Address(arn_string)) > 6 =>
              components[6] = Between(Address(arn_string), 6, NumPieces(Address(arn_string)))

\* C9: for an input of n tokens, 1 <= n <= 6, the i-th component's pattern is
\* the i-th token for i <= n and the wildcard '*' for every level after n.
C9_PartialLocatorPadding ==
    (lpc # "new" /\ ~FilterRejected /\ NumPieces(Address(arn_string)) <= 6) =>
        /\ lpc = "constructed"
        /\ Len(components) = 6
        /\ \A i \in 1..6 :
              components[i] = IF i <= NumPieces(Address(arn_string))
                              THEN Between(Address(arn_string), i, i)
                              ELSE STAR

\* A three-token input with a filter was constructed: three tokens, then
\* three wildcards.
C9_Witness ==
    /\ lpc = "constructed"
    /\ NumPieces(Address(arn_string)) = 3
    /\ components[2] = <<"a", "/">>
    /\ components[3] = <<>>
    /\ components[4] = STAR /\ components[6] = STAR
    /\ query = <<"a">>

\* C10: a resource pattern with a '/' is split at its first '/', otherwise one
\* with a ':' at its first ':', otherwise the type is the whole pattern and the
\* id is None; '/' wins when both occur, and type + separator + id is the
\* pattern again.
C10_ResourcePatternSplit ==
    split_result # None =>
        LET rtype == split_result[1]
            rid   == split_result[2]
            sep   == IF HasChar(resource_arg, "/") THEN "/" ELSE ":"
        IN  IF HasChar(resource_arg, "/") \/ HasChar(resource_arg, ":")
            THEN /\ ~HasChar(rtype, sep)
                 /\ rid # None
                 /\ rtype \o <<sep>> \o rid = resource_arg
            ELSE rtype = resource_arg /\ rid = None

\* A pattern with both separators, the ':' first, was split at its '/', and
\* the id kept a further '/'.
C10_Witness ==
    /\ split_result # None
    /\ HasChar(split_result[1], ":")
    /\ HasChar(split_result[2], "/")

\* s holds t as a run of consecutive characters.
Occurs(t, s) == \E i \in 1..(Len(s) + 1) : \E j \in (i - 1)..Len(s) : SubSeq(s, i, j) = t

\* C11: match(pattern, context) returns exactly the candidates of
\* choices(context) in which the pattern (at the Resource level its type part)
\* occurs somewhere, each as often as choices lists it and in the order of
\* choices; the wildcard '*' returns every candidate, and no candidate at all
\* gives the empty list.
C11_MatchFiltersChoices ==
    direct.op = "match" =>
        LET cands == choices(direct.k, direct.context)
            pat   == IF direct.k = 6 THEN _split_resource(direct.pattern)[1]
                     ELSE direct.pattern
            hit   == {i \in 1..Len(cands) : pat = STAR \/ Occurs(pat, cands[i])}
        IN  /\ Len(direct.result) = Cardinality(hit)
            /\ \A i \in hit : direct.result[Cardinality({j \in hit : j <= i})] = cands[i]

\* Region.match('east', context) kept some of the nine regions, 'us-east-1'
\* before 'ap-southeast-1', none equal to the pattern.
C11_Witness ==
    /\ direct.op = "match" /\ direct.k = 4
    /\ direct.pattern = <<"e", "a", "s", "t">>
    /\ Len(choices(4, direct.context)) = 9
    /\ Len(direct.result) >= 2
    /\ direct.result[1] = us_east_1
    /\ direct.result[2] = ap_southeast_1

\* The five-value context a backend call was made under.
BranchOf(c) == <<s_arn, c.path[1], c.path[2], c.region, c.account>>

\* C12: a level whose pattern matches no candidate is not an error: the only
\* errors of a traversal come from a call made for a matched resource type; no
\* backend call is made for a branch in which some level has no match (every
\* value of a call's branch is a match of its level); and a traversal that meets
\* such branches goes on to the remaining ones, so that once it is exhausted it
\* has delivered the records of every matching branch.
C12_NoMatchIsNotAnError ==
    \A t \in DOMAIN its :
        /\ its[t].pc = "raised" =>
              /\ its[t].error \in {"LookupError", "BackendError"}
              /\ its[t].rmatches # <<>>
        /\ \A i \in 1..Len(its[t].calls) :
              LET c == its[t].calls[i]
                  b == BranchOf(c)
              IN /\ \A k \in 1..5 :
                       b[k] \in Range(match(k, components[k], SubSeq(b, 1, k - 1)))
                 /\ c.path[3] \in Range(match(6, components[6], b))
        /\ its[t].pc = "exhausted" =>
              {its[t].out[i].rec : i \in 1..Len(its[t].out)} = Deliverable

\* The locator 'arn:aws:*:*:*:user' was enumerated to the end: no resource type
\* of ec2 and elb matches 'user', so every branch under them was empty, and the
\* records of the iam branches after them were delivered.
C12_Witness ==
    \E t \in DOMAIN its :
        /\ its[t].pc = "exhausted"
        /\ components[6] = s_user
        /\ matches(6, <<s_arn, s_aws, s_ec2, us_east_1, acct_123>>) = <<>>
        /\ matches(4, <<s_arn, s_aws, s_elb>>) # <<>>
        /\ Len(its[t].calls) = 2
        /\ Len(its[t].out) = 2 * NumRecs

\* C13: Region.choices(context) returns, for a service (context[2]) that is a
\* key of the restricted-region table, exactly the list the table gives it, and
\* for any other service the full region list.
C13_RegionRestriction ==
    (direct.op = "choices" /\ direct.k = 4 /\ Truthy(direct.context)) =>
        LET service == direct.context[3]
            rows    == {i \in 1..Len(_service_region_map) :
                           _service_region_map[i][1] = service}
        IN  IF rows = {} THEN direct.result = _all_region_names
            ELSE \A i \in rows : direct.result = _service_region_map[i][2]

\* Region.choices was called for 'lambda', a key of the table: the four
\* regions of its row, not the nine of the full list.
C13_Witness ==
    /\ direct.op = "choices" /\ direct.k = 4 /\ Truthy(direct.context)
    /\ direct.context[3] = <<"l", "a", "m", "b", "d", "a">>
    /\ direct.result = <<us_east_1, us_west_2, eu_west_1, ap_northeast_1>>

RECURSIVE MatchPaths(_)
\* The contexts of k values the locator's patterns match, level by level.
MatchPaths(k) ==
    IF k = 0 THEN {<<>>}
    ELSE UNION { {Append(c, m) : m \in Range(match(k, components[k], c))}
                 : c \in MatchPaths(k - 1) }

\* The match count of level k: the most matches the level has under a context
\* the earlier levels match.
MatchCount(k) ==
    LET counts == {Len(match(k, components[k], c)) : c \in MatchPaths(k - 1)}
    IN IF counts = {} THEN 0 ELSE CHOOSE n \in counts : \A m \in counts : m <= n

\* The iterator of the locator has ended: exhausted, ended by an error, or
\* closed by its consumer.
Terminated ==
    /\ its # <<>>
    /\ \A t \in DOMAIN its : its[t].pc \in {"exhausted", "raised", "closed"}

\* C14: with finite candidate lists and finite backend results, the top-level
\* enumeration of every constructed locator terminates, and at every moment the number of
\* backend enumerator calls made is at most the product of the match counts of
\* the six levels (and at most the number of six-value paths matched).
C14_Termination ==
    /\ [](\A t \in DOMAIN its :
             /\ Len(its[t].calls) <= MatchCount(1) * MatchCount(2) * MatchCount(3)
                                       * MatchCount(4) * MatchCount(5) * MatchCount(6)
             /\ Len(its[t].calls) <= Cardinality(MatchPaths(6)))
    /\ (lpc = "constructed") ~> Terminated

\* The six-token locator with every token after the provider '*' was enumerated
\* to exhaustion, with one backend call for every path it matches.
C14_Witness ==
    \E t \in DOMAIN its :
        /\ its[t].pc = "exhausted"
        /\ Len(Tokens(arn_string)) = 6
        /\ \A k \in 3..6 : components[k] = STAR
        /\ Len(its[t].calls) = Cardinality(MatchPaths(6))
        /\ Len(its[t].calls) > Len(_all_region_names)

\* The records the consumer of traversal tr has received.
Delivered(tr) == {tr.out[i] : i \in 1..Len(tr.out)}

\* C15: enumeration is pull-driven: whenever a backend call has been made for a
\* (scheme, provider, service, region, account) branch, the consumer has
\* already received every record of the calls made for all other (earlier)
\* branches; only records of the branch the traversal is in can be outstanding.
C15_Laziness ==
    \A t \in DOMAIN its :
        \A i \in 1..Len(its[t].calls) :
            LET c == its[t].calls[i]
            IN  \/ its[t].context = BranchOf(c)
                \/ /\ ~BackendFails(c)
                   /\ \A r \in Range(BackendRecords(c.path, c.region, c.account,
                                                     c.resource_id)) :
                         [ctx |-> BranchOf(c), rec |-> r] \in Delivered(its[t])

\* The consumer holds the first record of a locator matching many branches
\* while only the backends of the first branch have been called.
C15_Witness ==
    \E t \in DOMAIN its :
        /\ its[t].pc = "suspended"
        /\ Len(its[t].out) = 1
        /\ \A i \in 1..Len(its[t].calls) : BranchOf(its[t].calls[i]) = its[t].context
        /\ Len(its[t].calls) = Len(matches(6, its[t].context))
        /\ Cardinality(MatchPaths(5)) > Len(_all_region_names)

\* The id part of a resource pattern: what follows its first '/', or, without
\* a '/', its first ':'; None when it has neither.
IdPart(p) ==
    IF HasChar(p, "/") THEN SubSeq(p, Find(p, "/") + 1, Len(p))
    ELSE IF HasChar(p, ":") THEN SubSeq(p, Find(p, ":") + 1, Len(p))
    ELSE None

\* The calls of traversal tr made with the provider, service, region and
\* account of the context, in the order they were made.
CallsUnder(tr, context) ==
    SelectSeq(tr.calls, LAMBDA c : /\ c.path[1] = context[2] /\ c.path[2] = context[3]
                                   /\ c.region = context[4] /\ c.account = context[5])

\* C16: under a context that reaches the Resource level the backend enumerator
\* is called exactly once for each matching resource type, in match order, at
\* the path provider.service.type of the context's values, with the context's
\* region and account; every call gets the id part of the resource pattern
\* unchanged (None without one) and the credentials given to the locator.
C16_BackendFanOut ==
    \A t \in DOMAIN its :
        /\ \A i \in 1..Len(its[t].calls) :
              /\ its[t].calls[i].resource_id = IdPart(components[6])
              /\ its[t].calls[i].aws_creds = aws_creds
        /\ (its[t].pc \in {"running", "suspended"} /\ its[t].pos \in {"resloop", "yield"}) =>
              LET here  == CallsUnder(its[t], its[t].context)
                  types == match(6, components[6], its[t].context)
                  n     == IF its[t].pos = "resloop" THEN its[t].ri ELSE Len(types)
              IN  /\ Len(here) = n
                  /\ \A j \in 1..n : here[j].path[3] = types[j]

\* Resource.enumerate returned under a context with two matching resource
\* types, after two calls that carried the locator's credentials, the context's
\* region and no id.
C16_Witness ==
    \E t \in DOMAIN its :
        /\ its[t].pc = "running" /\ its[t].pos = "yield"
        /\ aws_creds # None
        /\ Len(CallsUnder(its[t], its[t].context)) = 2
        /\ its[t].context[4] = us_west_2 /\ its[t].context[5] = acct_456
        /\ its[t].calls[Len(its[t].calls)].region = us_west_2
        /\ its[t].calls[Len(its[t].calls)].resource_id = None

\* The candidates of level k as the values of a non-empty context alone decide
\* them: the services of the context's provider, the regions of the context's
\* service, the resource types of the context's provider and service.
ChoicesByContext(k, context) ==
    CASE k = 1 -> <<s_arn>>
      [] k = 2 -> <<s_aws>>
      [] k = 3 -> all_services(context[2])
      [] k = 4 -> region_map_get(context[3], _all_region_names)
      [] k = 5 -> _accounts
      [] k = 6 -> IF all_types(context[2], context[3]) = <<>> THEN <<STAR>>
                  ELSE all_types(context[2], context[3])

\* C17: the candidates a component returns for a non-empty context are a
\* function of the level and the context alone, the same whatever string the
\* locator was built from; the Resource level's are the resource types of the
\* provider and service in the context.
C17_ChoicesPureInContext ==
    (direct.op = "choices" /\ Truthy(direct.context)) =>
        direct.result = ChoicesByContext(direct.k, direct.context)

\* The context whose entries are the locator's own scheme, provider and
\* service patterns.
OwnPatterns == <<components[1], components[2], components[3]>>

\* C18: at the Service, Region and Resource levels, choices called with no
\* context (None or the empty list) returns what it returns for a context whose
\* relevant entry is the locator's own pattern: the provider pattern for
\* Service, the service pattern for Region and Resource.
C18_NoContextFallback ==
    (direct.op = "choices" /\ ~Truthy(direct.context) /\ direct.k \in {3, 4, 6}) =>
        direct.result = choices(direct.k, OwnPatterns)

RECURSIVE Flatten(_)
\* The concatenation of a sequence of sequences.
Flatten(seqs) == IF seqs = <<>> THEN <<>> ELSE Head(seqs) \o Flatten(Tail(seqs))

RECURSIVE BranchesFrom(_)
\* The five-value contexts the locator matches below the context ctx, in
\* traversal order.
BranchesFrom(ctx) ==
    IF Len(ctx) = 5 THEN <<ctx>>
    ELSE LET m == match(Len(ctx) + 1, components[Len(ctx) + 1], ctx)
         IN Flatten([j \in 1..Len(m) |-> BranchesFrom(Append(ctx, m[j]))])

\* Some call of the branch b raises: a matched type is not registered, or its
\* backend fails.
BranchRaises(b) ==
    \E ty \in Range(match(6, components[6], b)) :
        \/ ~IsRegistered(<<b[2], b[3], ty>>)
        \/ <<<<b[2], b[3], ty>>, b[4], b[5]>> \in failing

\* What the branch b delivers: the records of its matched types, in order.
BranchRecords(b) ==
    LET types == match(6, components[6], b)
        recs  == Flatten([j \in 1..Len(types) |->
                            BackendRecords(<<b[2], b[3], types[j]>>, b[4], b[5],
                                           IdPart(components[6]))])
    IN [i \in 1..Len(recs) |-> [ctx |-> b, rec |-> recs[i]]]

\* What one iteration of the locator delivers when it runs alone and is pulled
\* to its end: the records of its branches up to the first that raises.
AloneOut ==
    LET bs   == BranchesFrom(<<>>)
        bad  == {j \in 1..Len(bs) : BranchRaises(bs[j])}
        last == IF bad = {} THEN Len(bs)
                ELSE (CHOOSE j \in bad : \A l \in bad : j <= l) - 1
    IN Flatten([j \in 1..last |-> BranchRecords(bs[j])])

IsPrefix(a, b) == Len(a) <= Len(b) /\ SubSeq(b, 1, Len(a)) = a

\* C19: every iterator of a locator has a context of its own, empty at its
\* first next(): whatever the order of the pulls of two iterators, the context
\* of each holds exactly the values its own generators pushed, and each
\* delivers the sequence it delivers alone (all of it once it has ended by
\* itself, a prefix of it while it runs or after its consumer closed it).
C19_IndependentTraversals ==
    \A t \in DOMAIN its :
        /\ its[t].pc \in {"running", "suspended"} =>
              /\ Len(its[t].context) <= Len(its[t].frames)
              /\ \A d \in 1..Len(its[t].context) :
                    /\ its[t].frames[d].i >= 1
                    /\ its[t].context[d] = its[t].frames[d].matches[its[t].frames[d].i]
        /\ IsPrefix(its[t].out, AloneOut)
        /\ its[t].pc \in {"exhausted", "raised"} => its[t].out = AloneOut

\* Two iterators of one locator, both between two pulls, the first a branch
\* ahead of the second.
C19_Witness ==
    /\ Len(its) = 2
    /\ its[1].pc = "suspended" /\ its[2].pc = "suspended"
    /\ its[1].context # its[2].context
    /\ Len(its[2].out) >= 1
    /\ Len(its[1].out) > Len(its[2].out)

\* C20: no step taken after construction (iterating, pulling, a level's loop,
\* a backend call, an error, a close) changes the locator: its six components,
\* their order and their patterns, its compiled filter and its credentials stay
\* what construction made them.
C20_LocatorUnchanged ==
    [][lpc = "constructed" =>
          /\ lpc' = lpc
          /\ components' = components
          /\ query' = query
          /\ aws_creds' = aws_creds]_vars

\* An iterator of a locator with a filter was closed after records were
\* delivered, and the locator is as construction made it.
C20_Witness ==
    \E t \in DOMAIN its :
        /\ its[t].pc = "closed"
        /\ its[t].out # <<>>
        /\ query # None
        /\ Len(components) = 6
        /\ components = _build_components_from_string(arn_string).components
        /\ query = _build_components_from_string(arn_string).query
====
